---- MODULE Spec2Model ----
(***************************************************************************)
(* State-machine model of the FinTrack dashboard (src/src/App.tsx,         *)
(* src/src/types.ts).                                                      *)
(*                                                                         *)
(* The React component's state hooks are the variables, every event        *)
(* handler is one action (the handler, the re-render it causes and the     *)
(* persistence effects that run after that render), and every useMemo      *)
(* derivation is an operator of the collections it is computed from.       *)
(*                                                                         *)
(* Numbers: money amounts, prices, quantities and limits are integers (a   *)
(* whole number of the smallest unit the number inputs accept).  A         *)
(* quotient is a JS number value: a reduced fraction, NaN, Infinity or     *)
(* -Infinity, produced by JsDiv as IEEE division produces them.            *)
(* Dates: a 'yyyy-MM-dd' string is the number of its day; NoDate is the    *)
(* empty string of a cleared date input.  A year of the model has YearDays *)
(* days: two days have the same month and day when they differ by a        *)
(* multiple of YearDays.                                                   *)
(* Ids: crypto.randomUUID() is the uuidCount-th fresh identifier.          *)
(***************************************************************************)
EXTENDS Integers, Sequences, FiniteSets, TLC

VARIABLES
    transactions,   \* useState<Transaction[]>   App.tsx:59
    bills,          \* useState<Bill[]>          App.tsx:63
    budgets,        \* useState<Budget[]>        App.tsx:67
    investments,    \* useState<Investment[]>    App.tsx:71
    isModalOpen,    \* App.tsx:76
    modalType,      \* App.tsx:77
    newTx,          \* transaction form state    App.tsx:85
    newBill,        \* bill form state           App.tsx:187
    newBudget,      \* budget form state         App.tsx:195
    newInvestment,  \* investment form state     App.tsx:200
    storage,        \* localStorage: key -> stored value
    searchQuery,    \* App.tsx:82
    activeTab,      \* App.tsx:81
    aiInsights,     \* App.tsx:79
    isAiLoading,    \* App.tsx:80
    requests,       \* the calls of getFinancialInsights that have not returned
    mounted,        \* the first render of App returned
    deletedIds,     \* history: the ids deleteTransaction has removed
    today,          \* the calendar day new Date() falls on
    uuidCount,      \* number of identifiers crypto.randomUUID() has returned
    last            \* history: the operation that produced this state

\* the state of the insight panel
aiVars == << activeTab, aiInsights, isAiLoading, requests >>

vars == << transactions, bills, budgets, investments, isModalOpen, modalType,
           newTx, newBill, newBudget, newInvestment, storage, searchQuery,
           aiVars, mounted, deletedIds, today, uuidCount, last >>

----------------------------------------------------------------------------
(* Bounds of the model *)

MaxIds == 3
MaxDay == 2

\* the number of days after which the calendar repeats a month and day
YearDays == 8

----------------------------------------------------------------------------
(* Reference data and input domains *)

NoDate == 0

DEFAULT_CATEGORIES ==
    << [id |-> "1", name |-> "Food & Dining",  type |-> "expense"],
       [id |-> "2", name |-> "Shopping",       type |-> "expense"],
       [id |-> "3", name |-> "Transportation", type |-> "expense"],
       [id |-> "4", name |-> "Entertainment",  type |-> "expense"],
       [id |-> "5", name |-> "Health",         type |-> "expense"],
       [id |-> "6", name |-> "Utilities",      type |-> "expense"],
       [id |-> "7", name |-> "Salary",         type |-> "income"],
       [id |-> "8", name |-> "Investment",     type |-> "income"],
       [id |-> "9", name |-> "Other",          type |-> "expense"] >>

StorageKeys == { "fintrack_transactions", "fintrack_bills",
                 "fintrack_budgets", "fintrack_investments" }

Ids == 1 .. MaxIds


TransactionTypes == { "expense", "income" }

ModalTypes == { "transaction", "bill", "budget", "investment" }

----------------------------------------------------------------------------
(* JS number values of quotients *)

Abs(n) == IF n < 0 THEN -n ELSE n

RECURSIVE Gcd(_, _)
Gcd(a, b) == IF b = 0 THEN a ELSE Gcd(b, a % b)

NaN == [kind |-> "NaN", num |-> 0, den |-> 0]

PosInfinity == [kind |-> "Infinity", num |-> 1, den |-> 0]

NegInfinity == [kind |-> "-Infinity", num |-> -1, den |-> 0]

\* n/d (d # 0) in lowest terms with a positive denominator
Reduced(n, d) ==
    LET g == Gcd(Abs(n), Abs(d))
        s == IF d < 0 THEN -1 ELSE 1
    IN  [kind |-> "finite", num |-> (s * n) \div g, den |-> (s * d) \div g]

\* the finite value n/d (d # 0) as a reduced fraction with a positive
\* denominator; n and d are evaluated once
Finite(n, d) ==
    CHOOSE q \in { Reduced(a, b) : a \in { n }, b \in { d } } : TRUE

JsNumber(n) == Finite(n, 1)

\* a / b on two integers, as the JS operator / gives it
JsDiv(a, b) ==
    IF b # 0 THEN Finite(a, b)
    ELSE IF a = 0 THEN NaN
    ELSE IF a > 0 THEN PosInfinity
    ELSE NegInfinity

\* x * k for a JS number value x and an integer k > 0
JsTimes(x, k) ==
    IF x.kind = "finite" THEN Finite(x.num * k, x.den) ELSE x

\* x < y on two JS number values, neither NaN
JsLess(x, y) ==
    CASE x.kind = "-Infinity" -> y.kind # "-Infinity"
      [] x.kind = "Infinity"  -> FALSE
      [] OTHER -> CASE y.kind = "-Infinity" -> FALSE
                    [] y.kind = "Infinity"  -> TRUE
                    [] OTHER -> x.num * y.den < y.num * x.den

\* Math.min(x, y): NaN when either argument is NaN
MathMin(x, y) ==
    IF x.kind = "NaN" \/ y.kind = "NaN" THEN NaN
    ELSE IF JsLess(y, x) THEN y ELSE x

----------------------------------------------------------------------------
(* Array helpers *)

\* nums.reduce((acc, n) => acc + n, 0)
RECURSIVE ReduceSum(_)
ReduceSum(nums) ==
    IF nums = << >> THEN 0
    ELSE ReduceSum(SubSeq(nums, 1, Len(nums) - 1)) + nums[Len(nums)]

\* the truthiness of a JS number and of a JS string
TruthyNumber(n) == n # 0

TruthyString(str) == str # ""

\* format(new Date(), 'yyyy-MM-dd')
TodayString(day) == day

\* the characters of the strings that descriptions, categories and search
\* queries take in this model
Chars(str) ==
    CASE str = ""              -> << >>
      [] str = "rent"          -> << "r", "e", "n", "t" >>
      [] str = "Rent"          -> << "R", "e", "n", "t" >>
      [] str = "RENT"          -> << "R", "E", "N", "T" >>
      [] str = "taxi"          -> << "t", "a", "x", "i" >>
      [] str = "din"           -> << "d", "i", "n" >>
      [] str = "zzz"           -> << "z", "z", "z" >>
      [] str = "Other"         -> << "O", "t", "h", "e", "r" >>
      [] str = "Shopping"      -> << "S", "h", "o", "p", "p", "i", "n", "g" >>
      [] str = "Utilities"     -> << "U", "t", "i", "l", "i", "t", "i", "e", "s" >>
      [] str = "Food & Dining" -> << "F", "o", "o", "d", " ", "&", " ",
                                     "D", "i", "n", "i", "n", "g" >>

\* the upper-case letters of the strings above with their lower-case letters
LowerCaseOf ==
    [c \in { "D", "E", "F", "N", "O", "R", "S", "T", "U" } |->
        CASE c = "D" -> "d" [] c = "E" -> "e" [] c = "F" -> "f"
          [] c = "N" -> "n" [] c = "O" -> "o" [] c = "R" -> "r"
          [] c = "S" -> "s" [] c = "T" -> "t" [] c = "U" -> "u"]

\* String.prototype.toLowerCase on the characters of a string
ToLowerCase(chars) ==
    [i \in DOMAIN chars |->
        IF chars[i] \in DOMAIN LowerCaseOf THEN LowerCaseOf[chars[i]]
        ELSE chars[i]]

\* String.prototype.includes on the characters of two strings
Includes(chars, search) ==
    \E k \in 0 .. (Len(chars) - Len(search)) :
       SubSeq(chars, k + 1, k + Len(search)) = search

\* new Date(date).getTime(), in days
DateTime(date) == date

\* sorted, with t put after the records the comparator does not put after t
InsertByDate(sorted, t) ==
    LET k == Cardinality({ i \in DOMAIN sorted :
                              DateTime(t.date) - DateTime(sorted[i].date) <= 0 })
    IN  SubSeq(sorted, 1, k) \o << t >> \o SubSeq(sorted, k + 1, Len(sorted))

\* arr.sort((a, b) => new Date(b.date).getTime() - new Date(a.date).getTime()),
\* a stable sort
RECURSIVE SortByDate(_)
SortByDate(arr) ==
    IF arr = << >> THEN << >>
    ELSE InsertByDate(SortByDate(SubSeq(arr, 1, Len(arr) - 1)), arr[Len(arr)])

\* JSON.stringify(collection), the value kept under a storage key
Stringify(collection) == [kind |-> "json", value |-> collection]

----------------------------------------------------------------------------
(* Derivations (useMemo) *)

\* stats over the transactions dated on the current day only
stats_ofToday(txs) ==
    LET incomeTxs  == SelectSeq(txs, LAMBDA t : t.type = "income"
                                                /\ t.date = today)
        expenseTxs == SelectSeq(txs, LAMBDA t : t.type = "expense"
                                                /\ t.date = today)
        income   == ReduceSum([i \in DOMAIN incomeTxs |-> incomeTxs[i].amount])
        expenses == ReduceSum([i \in DOMAIN expenseTxs |-> expenseTxs[i].amount])
    IN  [balance |-> income - expenses, income |-> income, expenses |-> expenses]

\* stats with the balance adding the expenses instead of subtracting them
stats_balanceAdds(txs) ==
    LET incomeTxs  == SelectSeq(txs, LAMBDA t : t.type = "income")
        expenseTxs == SelectSeq(txs, LAMBDA t : t.type = "expense")
        income   == ReduceSum([i \in DOMAIN incomeTxs |-> incomeTxs[i].amount])
        expenses == ReduceSum([i \in DOMAIN expenseTxs |-> expenseTxs[i].amount])
    IN  [balance |-> income + expenses, income |-> income, expenses |-> expenses]

\* stats  App.tsx:111-123
stats(txs) ==
    LET incomeTxs  == SelectSeq(txs, LAMBDA t : t.type = "income")
        expenseTxs == SelectSeq(txs, LAMBDA t : t.type = "expense")
        income   == ReduceSum([i \in DOMAIN incomeTxs |-> incomeTxs[i].amount])
        expenses == ReduceSum([i \in DOMAIN expenseTxs |-> expenseTxs[i].amount])
    IN  [balance |-> income - expenses, income |-> income, expenses |-> expenses]

\* the number of days of the time series  App.tsx:126
ChartDays == 7

\* format(date, 'MMM dd'): the month and the day of a date, without its year
FormatMonthDay(date) == date % YearDays

\* subDays(date, amount)
SubDays(date, amount) == date - amount

\* chartData as evaluated on the day `now` (new Date())  App.tsx:125-140
chartData(txs, now) ==
    [i \in 1 .. ChartDays |->
        LET date    == SubDays(now, (ChartDays - 1) - (i - 1))
            dateStr == FormatMonthDay(date)
            dayTransactions ==
                SelectSeq(txs, LAMBDA t : FormatMonthDay(t.date) = dateStr)
            incomeTxs  == SelectSeq(dayTransactions, LAMBDA t : t.type = "income")
            expenseTxs == SelectSeq(dayTransactions, LAMBDA t : t.type = "expense")
        IN  [name    |-> dateStr,
             income  |-> ReduceSum([j \in DOMAIN incomeTxs |-> incomeTxs[j].amount]),
             expense |-> ReduceSum([j \in DOMAIN expenseTxs |-> expenseTxs[j].amount])]]

\* budgetProgress without the upper clamp: (spent / budget.limit) * 100
budgetProgress_unclamped(bs, txs) ==
    [i \in DOMAIN bs |->
        LET budget  == bs[i]
            matched == SelectSeq(txs, LAMBDA t : t.type = "expense"
                                              /\ t.category = budget.category)
            spent   == ReduceSum([j \in DOMAIN matched |-> matched[j].amount])
        IN  [id |-> budget.id, category |-> budget.category, limit |-> budget.limit,
             spent |-> spent,
             percentage |-> JsTimes(JsDiv(spent, budget.limit), 100)]]

\* budgetProgress  App.tsx:150-161
budgetProgress(bs, txs) ==
    [i \in DOMAIN bs |->
        LET budget  == bs[i]
            matched == SelectSeq(txs, LAMBDA t : t.type = "expense"
                                              /\ t.category = budget.category)
            spent   == ReduceSum([j \in DOMAIN matched |-> matched[j].amount])
        IN  [id |-> budget.id, category |-> budget.category, limit |-> budget.limit,
             spent |-> spent,
             percentage |-> MathMin(JsTimes(JsDiv(spent, budget.limit), 100),
                                    JsNumber(100))]]

\* investmentStats guarding the division with totalInvested !== 0
investmentStats_nonZeroGuard(invs) ==
    LET totalInvested == ReduceSum([i \in DOMAIN invs |->
                                      invs[i].purchasePrice * invs[i].quantity])
        currentValue  == ReduceSum([i \in DOMAIN invs |->
                                      invs[i].currentPrice * invs[i].quantity])
        profitLoss    == currentValue - totalInvested
        profitLossPercentage ==
            IF totalInvested # 0
            THEN JsTimes(JsDiv(profitLoss, totalInvested), 100)
            ELSE JsNumber(0)
    IN  [totalInvested |-> totalInvested, currentValue |-> currentValue,
         profitLoss |-> profitLoss, profitLossPercentage |-> profitLossPercentage]

\* investmentStats  App.tsx:163-175
investmentStats(invs) ==
    LET totalInvested == ReduceSum([i \in DOMAIN invs |->
                                      invs[i].purchasePrice * invs[i].quantity])
        currentValue  == ReduceSum([i \in DOMAIN invs |->
                                      invs[i].currentPrice * invs[i].quantity])
        profitLoss    == currentValue - totalInvested
        profitLossPercentage ==
            IF totalInvested > 0
            THEN JsTimes(JsDiv(profitLoss, totalInvested), 100)
            ELSE JsNumber(0)
    IN  [totalInvested |-> totalInvested, currentValue |-> currentValue,
         profitLoss |-> profitLoss, profitLossPercentage |-> profitLossPercentage]

\* data[t.category] = (data[t.category] || 0) + t.amount, the object `data`
\* as its entries in the order the keys were first set  App.tsx:145
AddToCategory(data, t) ==
    IF \E i \in DOMAIN data : data[i].name = t.category
    THEN [i \in DOMAIN data |->
            IF data[i].name = t.category
            THEN [name |-> data[i].name, value |-> data[i].value + t.amount]
            ELSE data[i]]
    ELSE Append(data, [name |-> t.category, value |-> 0 + t.amount])

\* arr.forEach(t => { data[t.category] = ... }) from the empty object
RECURSIVE ForEachCategory(_)
ForEachCategory(arr) ==
    IF arr = << >> THEN << >>
    ELSE AddToCategory(ForEachCategory(SubSeq(arr, 1, Len(arr) - 1)),
                       arr[Len(arr)])

\* the breakdown over the transactions of every type
categoryData_everyType(txs) == ForEachCategory(txs)

\* categoryData: Object.entries(data).map(([name, value]) => ({ name, value }))
\* App.tsx:142-148
categoryData(txs) ==
    ForEachCategory(SelectSeq(txs, LAMBDA t : t.type = "expense"))

\* the filter test with the query compared as typed, not lower-cased
MatchesQuery_queryAsTyped(t, query) ==
    \/ Includes(ToLowerCase(Chars(t.description)), Chars(query))
    \/ Includes(ToLowerCase(Chars(t.category)), Chars(query))

\* the filter test of filteredTransactions  App.tsx:179-182
MatchesQuery(t, query) ==
    \/ Includes(ToLowerCase(Chars(t.description)), ToLowerCase(Chars(query)))
    \/ Includes(ToLowerCase(Chars(t.category)), ToLowerCase(Chars(query)))

\* the state sorted before it is filtered: transactions.sort(...).filter(...)
FilterThenSort_sortsState(txs, query) ==
    LET sorted == SortByDate(txs)
    IN  [transactions |-> sorted,
         result       |-> SelectSeq(sorted, LAMBDA t : MatchesQuery(t, query))]

\* transactions.filter(...).sort(...): filter returns a new array, sort
\* reorders the array it is called on and returns it; `transactions` is the
\* state array as the evaluation leaves it  App.tsx:178-183
FilterThenSort(txs, query) ==
    LET filtered == SelectSeq(txs, LAMBDA t : MatchesQuery(t, query))
    IN  [transactions |-> txs,
         result       |-> CHOOSE sorted \in { SortByDate(copy) :
                                                 copy \in { filtered } } : TRUE]

\* filteredTransactions  App.tsx:177-184
filteredTransactions(txs, query) == FilterThenSort(txs, query).result

\* the transactions state after the render that follows a change of
\* transactions or searchQuery, which re-evaluates the memo  App.tsx:177-184
Rendered(txs, query) == FilterThenSort(txs, query).transactions

\* the performance of one row of the investment table  App.tsx:653
performance(inv) ==
    JsTimes(JsDiv(inv.currentPrice - inv.purchasePrice, inv.purchasePrice), 100)

----------------------------------------------------------------------------
(* Insight collaborator: getFinancialInsights *)

\* the number of transactions in the summary  types.ts:68
SummarySize == 20

StartAddingText == "Start adding transactions to get AI-powered financial insights!"

UnableText == "Unable to generate insights at this time."

ErrorText == "Error connecting to AI advisor. Please try again later."

\* arr.slice(-n): the last n elements, all of them when there are fewer
SliceLast(arr, n) ==
    SubSeq(arr, IF Len(arr) > n THEN Len(arr) - n + 1 ELSE 1, Len(arr))

\* t => ({ type, amount, category, date })  types.ts:68-73
Summarised(t) ==
    [type |-> t.type, amount |-> t.amount, category |-> t.category,
     date |-> t.date]

\* the elements taken out of the array they come from: transactions.splice(-20)
Slice_splice(txs) ==
    [transactions |-> SubSeq(txs, 1, Len(txs) - Len(SliceLast(txs, SummarySize))),
     result       |-> SliceLast(txs, SummarySize)]

\* transactions.slice(-20): a new array; `transactions` is the argument array
\* as the call leaves it  types.ts:68
Slice(txs) ==
    [transactions |-> txs,
     result       |-> SliceLast(txs, SummarySize)]

\* transactions.slice(-20).map(...)  types.ts:68-73
Summary(txs) ==
    LET sliced == Slice(txs).result
    IN  [i \in DOMAIN sliced |-> Summarised(sliced[i])]

\* getFinancialInsights up to its await: with no transactions it returns at
\* once and nothing is sent, otherwise the prompt with the summary is sent
\* types.ts:63-85
InsightRequest(txs) ==
    IF Len(txs) = 0
    THEN [external |-> FALSE, summary |-> << >>]
    ELSE [external |-> TRUE, summary |-> Summary(txs)]

\* what ai.models.generateContent can do with a request: answer with text,
\* answer with no text, or fail
ServiceOutcomes ==
    { [kind |-> "text", text |-> "Spend less on dining."],
      [kind |-> "text", text |-> ""],
      [kind |-> "failure", text |-> ""] }

\* the function without its try/catch: a failure of the call rejects
GetFinancialInsights_noCatch(request, outcome) ==
    IF ~request.external
    THEN [rejected |-> FALSE, value |-> StartAddingText]
    ELSE IF outcome.kind = "failure"
         THEN [rejected |-> TRUE, value |-> ""]
         ELSE [rejected |-> FALSE,
               value |-> IF TruthyString(outcome.text) THEN outcome.text
                         ELSE UnableText]

\* how the promise of getFinancialInsights settles  types.ts:64-92
GetFinancialInsights(request, outcome) ==
    IF ~request.external
    THEN [rejected |-> FALSE, value |-> StartAddingText]
    ELSE IF outcome.kind = "failure"
         THEN [rejected |-> FALSE, value |-> ErrorText]
         ELSE [rejected |-> FALSE,
               value |-> IF TruthyString(outcome.text) THEN outcome.text
                         ELSE UnableText]

----------------------------------------------------------------------------
(* Form state *)

\* the initial and the reset value of the transaction form  App.tsx:85-91, 226-232
InitialNewTx(day) ==
    [type |-> "expense", date |-> TodayString(day),
     category |-> DEFAULT_CATEGORIES[1].name, amount |-> 0, description |-> ""]

\* App.tsx:187-193
InitialNewBill(day) ==
    [name |-> "", amount |-> 0, dueDate |-> TodayString(day),
     category |-> "Utilities", isPaid |-> FALSE]

\* App.tsx:195-198
InitialNewBudget ==
    [category |-> DEFAULT_CATEGORIES[1].name, limit |-> 0]

\* App.tsx:200-208
InitialNewInvestment(day) ==
    [assetName |-> "", symbol |-> "", quantity |-> 0, purchasePrice |-> 0,
     currentPrice |-> 0, purchaseDate |-> TodayString(day), category |-> "Stock"]

----------------------------------------------------------------------------
(* Initial state: the first render and its mount effects *)

\* what localStorage holds under a key that was never written
Absent == [kind |-> "absent", value |-> << >>]

\* const saved = localStorage.getItem(key); saved ? JSON.parse(saved) : []
\* App.tsx:59-74
Load(saved) == IF saved.kind = "absent" THEN << >> ELSE saved.value

\* records an earlier session wrote; their ids are identifiers issued then
StoredBill ==
    [id |-> MaxIds + 1, name |-> "water", amount |-> 3, dueDate |-> 1,
     category |-> "Utilities", isPaid |-> FALSE]

StoredBudget == [id |-> MaxIds + 2, category |-> "Shopping", limit |-> 3]

StoredInvestment ==
    [id |-> MaxIds + 3, assetName |-> "Gold", symbol |-> "XAU", quantity |-> 1,
     purchasePrice |-> 2, currentPrice |-> 3, purchaseDate |-> 1,
     category |-> "Other"]

\* the contents of localStorage the application may be started on
InitialStorages ==
    { [k \in StorageKeys |-> Absent],
      [k \in StorageKeys |->
          CASE k = "fintrack_transactions" -> Absent
            [] k = "fintrack_bills"        -> Stringify(<< StoredBill >>)
            [] k = "fintrack_budgets"      -> Stringify(<< StoredBudget >>)
            [] k = "fintrack_investments"  -> Stringify(<< StoredInvestment >>)] }

\* the argument of an operation that reads no form
NoForm == [form |-> "none"]

NoOperation ==
    [op |-> "mount", id |-> 0, ok |-> TRUE, pre |-> << >>, arg |-> NoForm,
     before |-> [op |-> "none", id |-> 0, ok |-> TRUE]]

Init ==
    /\ today = 1
    /\ \E saved \in InitialStorages :
          /\ transactions = Rendered(Load(saved["fintrack_transactions"]), "")
          /\ bills = Load(saved["fintrack_bills"])
          /\ budgets = Load(saved["fintrack_budgets"])
          /\ investments = Load(saved["fintrack_investments"])
    /\ isModalOpen = FALSE
    /\ modalType = "transaction"
    /\ newTx = InitialNewTx(today)
    /\ newBill = InitialNewBill(today)
    /\ newBudget = InitialNewBudget
    /\ newInvestment = InitialNewInvestment(today)
    /\ storage = [k \in StorageKeys |->
                    CASE k = "fintrack_transactions" -> Stringify(transactions)
                      [] k = "fintrack_bills"        -> Stringify(bills)
                      [] k = "fintrack_budgets"      -> Stringify(budgets)
                      [] k = "fintrack_investments"  -> Stringify(investments)]
    /\ mounted = TRUE
    /\ deletedIds = {}
    /\ searchQuery = ""
    /\ activeTab = "dashboard"
    /\ aiInsights = ""
    /\ isAiLoading = FALSE
    /\ requests = << >>
    /\ uuidCount = 0
    /\ last = NoOperation

\* a stored value that is not JSON text
Corrupt == [kind |-> "corrupt", value |-> << >>]

\* JSON.parse(saved) throws a SyntaxError; no try/catch encloses the call
\* App.tsx:59-74
ParseThrows(saved) == saved.kind = "corrupt"

\* a transaction an earlier session wrote
StoredTransaction ==
    [id |-> MaxIds + 4, amount |-> 2, description |-> "rent",
     category |-> "Shopping", date |-> 1, type |-> "expense"]

\* the collection an earlier session wrote under a key
StoredUnder(key) ==
    CASE key = "fintrack_transactions" -> << StoredTransaction >>
      [] key = "fintrack_bills"        -> << StoredBill >>
      [] key = "fintrack_budgets"      -> << StoredBudget >>
      [] key = "fintrack_investments"  -> << StoredInvestment >>

\* the contents of localStorage at startup: every key never written or every
\* key written by an earlier session, and at most one key holding text that
\* is not JSON
StartStorages ==
    { kinds \in [StorageKeys -> { "absent", "json", "corrupt" }] :
         /\ Cardinality({ k \in StorageKeys : kinds[k] = "corrupt" }) <= 1
         /\ \/ \A k \in StorageKeys : kinds[k] # "json"
            \/ \A k \in StorageKeys : kinds[k] # "absent" }

StartValue(kind, key) ==
    CASE kind = "absent"  -> Absent
      [] kind = "json"    -> Stringify(StoredUnder(key))
      [] kind = "corrupt" -> Corrupt

\* the first render on any contents of localStorage: a useState initialiser
\* that throws ends the render, so no state exists and no effect runs
\* App.tsx:59-108
Startup(saved) ==
    /\ today = 1
    /\ LET threw == \E k \in StorageKeys :
                       saved[k].kind # "absent" /\ ParseThrows(saved[k])
           loaded == [k \in StorageKeys |->
                        IF threw THEN << >> ELSE Load(saved[k])]
       IN  /\ mounted = ~threw
           /\ transactions = Rendered(loaded["fintrack_transactions"], "")
           /\ bills = loaded["fintrack_bills"]
           /\ budgets = loaded["fintrack_budgets"]
           /\ investments = loaded["fintrack_investments"]
           /\ storage = IF threw THEN saved
                        ELSE [k \in StorageKeys |-> Stringify(loaded[k])]
           /\ last = [NoOperation EXCEPT !.ok = ~threw, !.pre = saved]
    /\ isModalOpen = FALSE
    /\ modalType = "transaction"
    /\ newTx = InitialNewTx(today)
    /\ newBill = InitialNewBill(today)
    /\ newBudget = InitialNewBudget
    /\ newInvestment = InitialNewInvestment(today)
    /\ deletedIds = {}
    /\ searchQuery = ""
    /\ activeTab = "dashboard"
    /\ aiInsights = ""
    /\ isAiLoading = FALSE
    /\ requests = << >>
    /\ uuidCount = 0

\* startup on each of the StartStorages
InitStore ==
    \E kinds \in StartStorages :
       Startup([k \in StorageKeys |-> StartValue(kinds[k], k)])

\* the transactions of an earlier session, one fewer than a summary holds,
\* the one added last first
StoredLedger ==
    [i \in 1 .. (SummarySize - 1) |->
        [id |-> MaxIds + 4 + i, amount |-> 1, description |-> "rent",
         category |-> "Other", date |-> 1, type |-> "expense"]]

\* startup with no stored transactions or with those of StoredLedger
InitInsights ==
    \E ledger \in { << >>, StoredLedger } :
       Startup([k \in StorageKeys |->
                   IF k = "fintrack_transactions" /\ ledger # << >>
                   THEN Stringify(ledger) ELSE Absent])

----------------------------------------------------------------------------
(* Operations *)

\* history: the operation `op` on identifier `id`, whether it took effect, the
\* collection it acts on as it was before, the form it read, and the operation
\* before it
Operation(op, id, ok, pre, arg) ==
    [op |-> op, id |-> id, ok |-> ok, pre |-> pre, arg |-> arg,
     before |-> [op |-> last.op, id |-> last.id, ok |-> last.ok]]

\* the store emptied before the write: localStorage.clear(); setItem(key, ...)
Persist_clearsFirst(key, collection) ==
    storage' = [k \in StorageKeys |->
                  IF k = key THEN Stringify(collection) ELSE Absent]

\* every collection written under the transactions key
Persist_oneKey(key, collection) ==
    storage' = [storage EXCEPT !["fintrack_transactions"] = Stringify(collection)]

\* useEffect(() => localStorage.setItem(key, JSON.stringify(collection)), [collection])
\* App.tsx:93-108
Persist(key, collection) ==
    storage' = [storage EXCEPT ![key] = Stringify(collection)]

\* the header and tab buttons: setModalType(type); setIsModalOpen(true)
OpenModal(type) ==
    /\ modalType' = type
    /\ isModalOpen' = TRUE
    /\ last' = Operation("openModal", 0, TRUE, << >>, NoForm)
    /\ UNCHANGED << transactions, bills, budgets, investments, newTx, newBill,
                    newBudget, newInvestment, storage, today, uuidCount,
                    searchQuery, aiVars, mounted, deletedIds >>

\* the backdrop and the X button of the modal: setIsModalOpen(false)
CloseModal ==
    /\ isModalOpen
    /\ isModalOpen' = FALSE
    /\ last' = Operation("closeModal", 0, TRUE, << >>, NoForm)
    /\ UNCHANGED << transactions, bills, budgets, investments, modalType, newTx,
                    newBill, newBudget, newInvestment, storage, today, uuidCount,
                    searchQuery, aiVars, mounted, deletedIds >>

\* a day passes
Tick ==
    /\ today < MaxDay
    /\ today' = today + 1
    /\ last' = Operation("tick", 0, TRUE, << >>, NoForm)
    /\ UNCHANGED << transactions, bills, budgets, investments, isModalOpen,
                    modalType, newTx, newBill, newBudget, newInvestment, storage,
                    uuidCount,
                    searchQuery, aiVars, mounted, deletedIds >>

\* an input of the transaction form: setNewTx(prev => ({ ...prev, [field]: value }))
SetNewTx(field, value) ==
    /\ isModalOpen
    /\ modalType = "transaction"
    /\ newTx' = [newTx EXCEPT ![field] = value]
    /\ last' = Operation("setNewTx", 0, TRUE, << >>, NoForm)
    /\ UNCHANGED << transactions, bills, budgets, investments, isModalOpen,
                    modalType, newBill, newBudget, newInvestment, storage, today,
                    uuidCount,
                    searchQuery, aiVars, mounted, deletedIds >>

\* the search box: setSearchQuery(e.target.value)  App.tsx:368
SetSearchQuery(query) ==
    /\ searchQuery' = query
    /\ transactions' = Rendered(transactions, query)
    /\ last' = Operation("setSearchQuery", 0, TRUE, transactions, NoForm)
    /\ UNCHANGED << bills, budgets, investments, isModalOpen,
                    modalType, newTx, newBill, newBudget, newInvestment, storage,
                    today, uuidCount, aiVars, mounted, deletedIds >>

\* the record built with no fallback for a cleared date
NewTransaction_noDateDefault(id, form, day) ==
    [id          |-> id,
     amount      |-> form.amount,
     description |-> form.description,
     category    |-> IF TruthyString(form.category) THEN form.category ELSE "Other",
     date        |-> form.date,
     type        |-> form.type]

\* the record with the day it is added on as its id
NewTransaction_idFromDay(id, form, day) ==
    [id          |-> day,
     amount      |-> form.amount,
     description |-> form.description,
     category    |-> IF TruthyString(form.category) THEN form.category ELSE "Other",
     date        |-> IF form.date # NoDate THEN form.date ELSE TodayString(day),
     type        |-> form.type]

\* the record handleAddTransaction builds from the form  App.tsx:215-222
NewTransaction(id, form, day) ==
    [id          |-> id,
     amount      |-> form.amount,
     description |-> form.description,
     category    |-> IF TruthyString(form.category) THEN form.category ELSE "Other",
     date        |-> IF form.date # NoDate THEN form.date ELSE TodayString(day),
     type        |-> form.type]

\* the new record put after the previous ones instead of before them
PrependTransaction_appends(transaction, prev) == prev \o << transaction >>

\* setTransactions(prev => [transaction, ...prev])  App.tsx:224
PrependTransaction(transaction, prev) == << transaction >> \o prev

\* the validation rejecting only a form that lacks both amount and description
TransactionRejected_both(form) ==
    ~TruthyNumber(form.amount) /\ ~TruthyString(form.description)

\* the validation of handleAddTransaction  App.tsx:213
TransactionRejected(form) ==
    ~TruthyNumber(form.amount) \/ ~TruthyString(form.description)

\* handleAddTransaction on the transaction form holding `form`  App.tsx:211-233
AddTransaction(form) ==
    IF TransactionRejected(form)
    THEN /\ last' = Operation("handleAddTransaction", 0, FALSE, transactions,
                               form)
         /\ newTx' = form
         /\ isModalOpen' = TRUE
         /\ modalType' = "transaction"
         /\ UNCHANGED << transactions, bills, budgets, investments, newBill,
                         newBudget, newInvestment, storage, today, uuidCount,
                    searchQuery, aiVars, mounted, deletedIds >>
    ELSE /\ uuidCount < MaxIds
         /\ uuidCount' = uuidCount + 1
         /\ transactions' =
                Rendered(PrependTransaction(NewTransaction(uuidCount', form,
                                                           today),
                                            transactions),
                         searchQuery)
         /\ isModalOpen' = FALSE
         /\ modalType' = "transaction"
         /\ newTx' = InitialNewTx(today)
         /\ Persist("fintrack_transactions", transactions')
         /\ last' = Operation("handleAddTransaction", uuidCount', TRUE,
                               transactions, form)
         /\ UNCHANGED << bills, budgets, investments, newBill, newBudget,
                         newInvestment, today,
                    searchQuery, aiVars, mounted, deletedIds >>

\* the submit of the transaction form as it stands
HandleAddTransaction ==
    /\ isModalOpen
    /\ modalType = "transaction"
    /\ AddTransaction(newTx)

\* Add Transaction, the form filled with `form`, submit
SubmitTransaction(form) == AddTransaction(form)

\* the filter with its test inverted: prev.filter(t => t.id === id)
RemoveTransaction_keeps(id, prev) == SelectSeq(prev, LAMBDA t : t.id = id)

\* the first record dropped whenever some record has the id
RemoveTransaction_first(id, prev) ==
    IF \E i \in DOMAIN prev : prev[i].id = id THEN Tail(prev) ELSE prev

\* prev.filter(t => t.id !== id)  App.tsx:236
RemoveTransaction(id, prev) == SelectSeq(prev, LAMBDA t : t.id # id)

\* deleteTransaction  App.tsx:235-237
DeleteTransaction(id) ==
    /\ transactions' = Rendered(RemoveTransaction(id, transactions),
                                searchQuery)
    /\ Persist("fintrack_transactions", transactions')
    /\ last' = Operation("deleteTransaction", id, TRUE, transactions, NoForm)
    /\ deletedIds' = IF \E i \in DOMAIN transactions : transactions[i].id = id
                     THEN deletedIds \cup { id }
                     ELSE deletedIds
    /\ UNCHANGED << bills, budgets, investments, isModalOpen, modalType, newTx,
                    newBill, newBudget, newInvestment, today, uuidCount,
                    searchQuery, aiVars, mounted >>

\* handleAddBill on the bill form holding `form`  App.tsx:239-251
AddBill(form) ==
    /\ uuidCount < MaxIds
    /\ uuidCount' = uuidCount + 1
    /\ newBill' = form
    /\ bills' = Append(bills,
          [id       |-> uuidCount',
           name     |-> form.name,
           amount   |-> form.amount,
           dueDate  |-> IF form.dueDate # NoDate THEN form.dueDate
                        ELSE TodayString(today),
           category |-> IF TruthyString(form.category) THEN form.category
                        ELSE "Utilities",
           isPaid   |-> FALSE])
    /\ isModalOpen' = FALSE
    /\ modalType' = "bill"
    /\ Persist("fintrack_bills", bills')
    /\ last' = Operation("handleAddBill", uuidCount', TRUE, bills, form)
    /\ UNCHANGED << transactions, budgets, investments, newTx, newBudget,
                    newInvestment, today,
                    searchQuery, aiVars, mounted, deletedIds >>

\* Add Bill, the form filled with `form`, submit
SubmitBill(form) == AddBill(form)

\* the bill taken off the list instead of flipped: prev.filter(b => b.id !== id)
TogglePaid_removes(id, prev) == SelectSeq(prev, LAMBDA b : b.id # id)

\* the bill marked paid instead of flipped: { ...b, isPaid: true }
TogglePaid_setsPaid(id, prev) ==
    [i \in DOMAIN prev |->
        IF prev[i].id = id THEN [prev[i] EXCEPT !.isPaid = TRUE] ELSE prev[i]]

\* prev.map(b => b.id === id ? { ...b, isPaid: !b.isPaid } : b)  App.tsx:281
TogglePaid(id, prev) ==
    [i \in DOMAIN prev |->
        IF prev[i].id = id THEN [prev[i] EXCEPT !.isPaid = ~prev[i].isPaid]
        ELSE prev[i]]

\* toggleBillPaid  App.tsx:280-282
ToggleBillPaid(id) ==
    /\ bills' = TogglePaid(id, bills)
    /\ Persist("fintrack_bills", bills')
    /\ last' = Operation("toggleBillPaid", id, TRUE, bills, NoForm)
    /\ UNCHANGED << transactions, budgets, investments, isModalOpen, modalType,
                    newTx, newBill, newBudget, newInvestment, today, uuidCount,
                    searchQuery, aiVars, mounted, deletedIds >>

\* handleAddBudget on the budget form holding `form`  App.tsx:253-262
AddBudget(form) ==
    /\ uuidCount < MaxIds
    /\ uuidCount' = uuidCount + 1
    /\ newBudget' = form
    /\ budgets' = Append(budgets,
          [id |-> uuidCount', category |-> form.category, limit |-> form.limit])
    /\ isModalOpen' = FALSE
    /\ modalType' = "budget"
    /\ Persist("fintrack_budgets", budgets')
    /\ last' = Operation("handleAddBudget", uuidCount', TRUE, budgets, form)
    /\ UNCHANGED << transactions, bills, investments, newTx, newBill,
                    newInvestment, today,
                    searchQuery, aiVars, mounted, deletedIds >>

\* Add Budget, the form filled with `form`, submit
SubmitBudget(form) == AddBudget(form)

\* handleAddInvestment on the investment form holding `form`  App.tsx:264-278
AddInvestment(form) ==
    /\ uuidCount < MaxIds
    /\ uuidCount' = uuidCount + 1
    /\ newInvestment' = form
    /\ investments' = Append(investments,
          [id            |-> uuidCount',
           assetName     |-> form.assetName,
           symbol        |-> form.symbol,
           quantity      |-> form.quantity,
           purchasePrice |-> form.purchasePrice,
           currentPrice  |-> form.currentPrice,
           purchaseDate  |-> IF form.purchaseDate # NoDate THEN form.purchaseDate
                             ELSE TodayString(today),
           category      |-> form.category])
    /\ isModalOpen' = FALSE
    /\ modalType' = "investment"
    /\ Persist("fintrack_investments", investments')
    /\ last' = Operation("handleAddInvestment", uuidCount', TRUE, investments,
                          form)
    /\ UNCHANGED << transactions, bills, budgets, newTx, newBill, newBudget,
                    today,
                    searchQuery, aiVars, mounted, deletedIds >>

\* Add Asset, the form filled with `form`, submit
SubmitInvestment(form) == AddInvestment(form)

\* the page is loaded again: every state hook is initialised anew from
\* localStorage and the mount effects write the collections back
\* App.tsx:59-108
Reload ==
    /\ mounted
    /\ ~ \E k \in StorageKeys : ParseThrows(storage[k])
    /\ transactions' = Rendered(Load(storage["fintrack_transactions"]), "")
    /\ bills' = Load(storage["fintrack_bills"])
    /\ budgets' = Load(storage["fintrack_budgets"])
    /\ investments' = Load(storage["fintrack_investments"])
    /\ storage' = [k \in StorageKeys |->
                     CASE k = "fintrack_transactions" -> Stringify(transactions')
                       [] k = "fintrack_bills"        -> Stringify(bills')
                       [] k = "fintrack_budgets"      -> Stringify(budgets')
                       [] k = "fintrack_investments"  -> Stringify(investments')]
    /\ isModalOpen' = FALSE
    /\ modalType' = "transaction"
    /\ newTx' = InitialNewTx(today)
    /\ newBill' = InitialNewBill(today)
    /\ newBudget' = InitialNewBudget
    /\ newInvestment' = InitialNewInvestment(today)
    /\ searchQuery' = ""
    /\ activeTab' = "dashboard"
    /\ aiInsights' = ""
    /\ isAiLoading' = FALSE
    /\ requests' = << >>
    /\ last' = Operation("reload", 0, TRUE,
                         << transactions, bills, budgets, investments >>,
                         NoForm)
    /\ UNCHANGED << mounted, deletedIds, today, uuidCount >>

\* fetchInsights behind a button that stays enabled while isAiLoading
FetchInsights_alwaysEnabled ==
    /\ isAiLoading' = TRUE
    /\ requests' = Append(requests, InsightRequest(transactions))
    /\ transactions' = IF Len(transactions) = 0 THEN transactions
                       ELSE Slice(transactions).transactions
    /\ last' = Operation("fetchInsights", 0, TRUE, transactions, NoForm)
    /\ UNCHANGED << bills, budgets, investments, isModalOpen, modalType,
                    newTx, newBill, newBudget, newInvestment, storage,
                    searchQuery, activeTab, aiInsights, mounted, deletedIds,
                    today, uuidCount >>

\* fetchInsights up to its await; both buttons that call it are absent or
\* disabled while isAiLoading.  getFinancialInsights is handed the state
\* array itself  App.tsx:284-286, 343-345, 699-718
FetchInsights ==
    /\ ~isAiLoading
    /\ isAiLoading' = TRUE
    /\ requests' = Append(requests, InsightRequest(transactions))
    /\ transactions' = IF Len(transactions) = 0 THEN transactions
                       ELSE Slice(transactions).transactions
    /\ last' = Operation("fetchInsights", 0, TRUE, transactions, NoForm)
    /\ UNCHANGED << bills, budgets, investments, isModalOpen,
                    modalType, newTx, newBill, newBudget, newInvestment,
                    storage, searchQuery, activeTab, aiInsights, mounted,
                    deletedIds, today, uuidCount >>

\* the promise settles and fetchInsights resumes; a rejection would leave it
\* at the await, for it has no try/catch  App.tsx:286-289
InsightsReturned(outcome) ==
    /\ requests # << >>
    /\ LET settled == GetFinancialInsights(Head(requests), outcome)
       IN  /\ requests' = Tail(requests)
           /\ IF settled.rejected
              THEN UNCHANGED << aiInsights, isAiLoading, activeTab >>
              ELSE /\ aiInsights' = settled.value
                   /\ isAiLoading' = FALSE
                   /\ activeTab' = "insights"
           /\ last' = Operation("insightsReturned", 0, ~settled.rejected,
                                << >>,
                                [form |-> "none", request |-> Head(requests),
                                 outcome |-> outcome])
    /\ UNCHANGED << transactions, bills, budgets, investments, isModalOpen,
                    modalType, newTx, newBill, newBudget, newInvestment,
                    storage, searchQuery, mounted, deletedIds, today,
                    uuidCount >>

----------------------------------------------------------------------------
(* Specifications *)

\* The transaction form, input by input.
TxAmountInputs == { 0, 1 }

TxDescriptionInputs == { "", "rent" }

TxCategoryInputs == { "", "Food & Dining" }

TxDateInputs == { NoDate, 1 }

NextTx ==
    \/ OpenModal("transaction")
    \/ CloseModal
    \/ Tick
    \/ \E v \in TxAmountInputs : SetNewTx("amount", v)
    \/ \E v \in TxDescriptionInputs : SetNewTx("description", v)
    \/ \E v \in TxCategoryInputs : SetNewTx("category", v)
    \/ \E v \in TxDateInputs : SetNewTx("date", v)
    \/ HandleAddTransaction

SpecTx == Init /\ [][NextTx]_vars

\* The transaction collection under additions and deletions.
LedgerForms ==
    [type : TransactionTypes, date : { 1 }, category : { "Food & Dining" },
     amount : { -1, 1, 2 }, description : { "rent" }]

NextLedger ==
    \/ \E form \in LedgerForms : SubmitTransaction(form)
    \/ \E id \in Ids : DeleteTransaction(id)

SpecLedger == Init /\ [][NextLedger]_vars

\* The bill collection under additions and paid toggles.
BillForms ==
    [name : { "power" }, amount : { 0, 5 }, dueDate : { NoDate, 1 },
     category : { "", "Utilities" }, isPaid : { FALSE }]

NextBills ==
    \/ \E form \in BillForms : SubmitBill(form)
    \/ \E id \in Ids \cup { StoredBill.id } : ToggleBillPaid(id)

SpecBills == Init /\ [][NextBills]_vars

\* Budgets and the expenses counted against them.
BudgetTxForms ==
    [type : TransactionTypes, date : { 1 },
     category : { "Food & Dining", "Shopping" }, amount : { -1, 2 },
     description : { "rent" }]

BudgetForms == [category : { "Food & Dining", "Shopping" }, limit : { -1, 0, 3 }]

NextBudget ==
    \/ \E form \in BudgetTxForms : SubmitTransaction(form)
    \/ \E form \in BudgetForms : SubmitBudget(form)

SpecBudget == Init /\ [][NextBudget]_vars

\* The investment collection under additions.
InvestmentForms ==
    [assetName : { "Acme" }, symbol : { "ACM" }, quantity : { -1, 0, 2 },
     purchasePrice : { 0, 1, 3 }, currentPrice : { 0, 2 }, purchaseDate : { 1 },
     category : { "Stock" }]

NextInvestments ==
    \E form \in InvestmentForms : SubmitInvestment(form)

SpecInvestments == Init /\ [][NextInvestments]_vars

\* The transaction list under the search box.
SearchForms ==
    [type : { "expense" }, date : { 1, 2 },
     category : { "Food & Dining", "Shopping" }, amount : { 1 },
     description : { "Rent", "taxi" }]

SearchQueries == { "", "RENT", "din", "zzz" }

NextSearch ==
    \/ \E form \in SearchForms : SubmitTransaction(form)
    \/ \E query \in SearchQueries : SetSearchQuery(query)

SpecSearch == Init /\ [][NextSearch]_vars

\* The four collections from startup on any stored contents, under every
\* mutation and reloads.  The handlers exist only once App has rendered; the
\* rows shown are the records that can be deleted or toggled.
StoreTxForms ==
    [type : { "expense" }, date : { 1 }, category : { "Food & Dining" },
     amount : { 1 }, description : { "rent" }]

StoreBillForms ==
    [name : { "power" }, amount : { 5 }, dueDate : { 1 },
     category : { "Utilities" }, isPaid : { FALSE }]

StoreBudgetForms == [category : { "Food & Dining" }, limit : { 3 }]

StoreInvestmentForms ==
    [assetName : { "Acme" }, symbol : { "ACM" }, quantity : { 2 },
     purchasePrice : { 1 }, currentPrice : { 2 }, purchaseDate : { 1 },
     category : { "Stock" }]

NextStore ==
    \/ mounted /\ \E form \in StoreTxForms : SubmitTransaction(form)
    \/ mounted /\ \E i \in DOMAIN transactions :
                     DeleteTransaction(transactions[i].id)
    \/ mounted /\ \E form \in StoreBillForms : SubmitBill(form)
    \/ mounted /\ \E i \in DOMAIN bills : ToggleBillPaid(bills[i].id)
    \/ mounted /\ \E form \in StoreBudgetForms : SubmitBudget(form)
    \/ mounted /\ \E form \in StoreInvestmentForms : SubmitInvestment(form)
    \/ Reload

SpecStore == InitStore /\ [][NextStore]_vars

\* The insight panel over a ledger that grows past the size of a summary.
InsightForms ==
    [type : { "income" }, date : { 2 }, category : { "Food & Dining" },
     amount : { 2, 3 }, description : { "rent" }]

\* the outcome of a request that was settled without the service
NoOutcome == [kind |-> "none", text |-> ""]

\* the outcomes a request can have
OutcomesOf(request) ==
    IF request.external THEN ServiceOutcomes ELSE { NoOutcome }

NextInsights ==
    \/ \E form \in InsightForms : SubmitTransaction(form)
    \/ FetchInsights
    \/ \E outcome \in ServiceOutcomes \cup { NoOutcome } :
          /\ requests # << >>
          /\ outcome \in OutcomesOf(Head(requests))
          /\ InsightsReturned(outcome)

SpecInsights == InitInsights /\ [][NextInsights]_vars

\* Every mutation handler while a request started from the empty insight
\* tab ("Generate Now", shown while aiInsights is empty) is outstanding, from
\* the first start of the application.
InitConcurrent == Startup([k \in StorageKeys |-> Absent])

NextConcurrent ==
    \/ \E form \in StoreTxForms : SubmitTransaction(form)
    \/ \E i \in DOMAIN transactions : DeleteTransaction(transactions[i].id)
    \/ \E form \in StoreBillForms : SubmitBill(form)
    \/ \E i \in DOMAIN bills : ToggleBillPaid(bills[i].id)
    \/ \E form \in StoreBudgetForms : SubmitBudget(form)
    \/ \E form \in StoreInvestmentForms : SubmitInvestment(form)
    \/ aiInsights = "" /\ FetchInsights
    \/ \E outcome \in ServiceOutcomes \cup { NoOutcome } :
          /\ requests # << >>
          /\ outcome \in OutcomesOf(Head(requests))
          /\ InsightsReturned(outcome)

SpecConcurrent == InitConcurrent /\ [][NextConcurrent]_vars

\* The time series over days: transactions dated today, tomorrow and a year
\* after today.
ChartForms ==
    { [type |-> "income", date |-> 1, category |-> "Food & Dining",
       amount |-> 2, description |-> "rent"],
      [type |-> "expense", date |-> 2, category |-> "Food & Dining",
       amount |-> 2, description |-> "rent"],
      [type |-> "expense", date |-> 1 + YearDays, category |-> "Food & Dining",
       amount |-> 2, description |-> "rent"] }

NextChart ==
    \/ \E form \in ChartForms : SubmitTransaction(form)
    \/ Tick

SpecChart == Init /\ [][NextChart]_vars

\* The derivations while state they are not computed from changes: the modal
\* opens, days pass, the search changes and comes back.
DeriveForms ==
    { [type |-> "expense", date |-> 1, category |-> "Shopping",
       amount |-> 2, description |-> "rent"] }

NextDerive ==
    \/ \E form \in DeriveForms : SubmitTransaction(form)
    \/ \E query \in { "", "din" } : SetSearchQuery(query)
    \/ OpenModal("transaction")
    \/ Tick

SpecDerive == Init /\ [][NextDerive]_vars

----------------------------------------------------------------------------
(* Properties *)

\* the sum of f[x] over the x in S
RECURSIVE SumOver(_, _)
SumOver(S, f) ==
    IF S = {} THEN 0
    ELSE LET x == CHOOSE y \in S : TRUE IN f[x] + SumOver(S \ { x }, f)

\* the total amount of the transactions of one type
TotalOfType(type) ==
    SumOver({ i \in DOMAIN transactions : transactions[i].type = type },
            [i \in DOMAIN transactions |-> transactions[i].amount])

Range(seq) == { seq[i] : i \in DOMAIN seq }

\* C1: in every state reached by adding and deleting transactions, stats.income
\* is the total of the income transactions, stats.expenses the total of the
\* expense transactions and stats.balance their difference; all three are 0
\* when there is no transaction.
C1_StatsTotals ==
    LET s == stats(transactions)
    IN  /\ s.income = TotalOfType("income")
        /\ s.expenses = TotalOfType("expense")
        /\ s.balance = TotalOfType("income") - TotalOfType("expense")
        /\ (transactions = << >>
              => s = [balance |-> 0, income |-> 0, expenses |-> 0])

C1_Witness ==
    /\ last.op = "deleteTransaction"
    /\ \E i, j \in DOMAIN transactions :
          /\ transactions[i].type = "income"
          /\ transactions[j].type = "expense"
    /\ stats(transactions).expenses > stats(transactions).income

\* C2: a successful add-transaction immediately followed by delete-transaction
\* of the id just added leaves the collection as it was before the add.
C2_AddThenDelete ==
    [][ ( /\ last.op = "handleAddTransaction"
          /\ last.ok
          /\ last'.op = "deleteTransaction"
          /\ last'.id = last.id )
        => transactions' = last.pre ]_vars

C2_Witness ==
    /\ last.op = "deleteTransaction"
    /\ last.before.op = "handleAddTransaction"
    /\ last.before.ok
    /\ last.before.id = last.id
    /\ Len(transactions) = 2

\* C3: add-transaction on a form whose amount is zero or whose description is
\* empty changes nothing: not the transaction collection, not any stored
\* value, not the other three collections, not the modal flag, not the form.
C3_RejectedAddIsNoOp ==
    [][ ( /\ last'.op = "handleAddTransaction"
          /\ (newTx.amount = 0 \/ newTx.description = "") )
        => /\ ~last'.ok
           /\ UNCHANGED << transactions, storage, bills, budgets, investments,
                           isModalOpen, modalType, newTx >> ]_vars

C3_Witness ==
    /\ last.op = "handleAddTransaction"
    /\ ~last.ok
    /\ last.arg.amount # 0
    /\ last.arg.description = ""
    /\ transactions # << >>
    /\ bills # << >>

\* C4: a successful add-transaction leaves the new record, whose id no earlier
\* record has, followed by every earlier record in its earlier order; the
\* stored order is always newest-added first.
C4_AddPrepends ==
    /\ (last.op = "handleAddTransaction" /\ last.ok)
          => /\ transactions # << >>
             /\ Head(transactions).id = last.id
             /\ Tail(transactions) = last.pre
             /\ \A t \in Range(last.pre) : t.id # last.id
    /\ \A i, j \in DOMAIN transactions :
          i < j => transactions[i].id > transactions[j].id

C4_Witness ==
    /\ last.op = "handleAddTransaction"
    /\ last.ok
    /\ last.before.op = "deleteTransaction"
    /\ Len(transactions) = 2

PositionOf(id, seq) == CHOOSE i \in DOMAIN seq : seq[i].id = id

\* C6: delete-transaction with id X leaves exactly the earlier records whose id
\* is not X, in their earlier relative order; when no record has id X the
\* collection is unchanged.
C6_DeleteRemovesById ==
    last.op = "deleteTransaction"
       => /\ Range(transactions) = { t \in Range(last.pre) : t.id # last.id }
          /\ Len(transactions) =
                Cardinality({ i \in DOMAIN last.pre : last.pre[i].id # last.id })
          /\ \A i, j \in DOMAIN transactions :
                i < j => PositionOf(transactions[i].id, last.pre)
                            < PositionOf(transactions[j].id, last.pre)
          /\ ((\A t \in Range(last.pre) : t.id # last.id)
                => transactions = last.pre)

C6_Witness ==
    /\ last.op = "deleteTransaction"
    /\ Len(last.pre) = 3
    /\ last.pre[2].id = last.id
    /\ Len(transactions) = 2

\* C7: toggle-bill-paid with id X negates isPaid of the bill with id X and
\* changes nothing else of the bill collection (length, order, other bills,
\* other fields) nor any other collection; with no bill of id X the bills are
\* unchanged; the toggle applied twice with one id restores the bills.
C7_ToggleFlipsOnlyIsPaid ==
    [][ last'.op = "toggleBillPaid"
        => /\ Len(bills') = Len(bills)
           /\ \A i \in DOMAIN bills :
                 /\ bills'[i].id = bills[i].id
                 /\ bills'[i].name = bills[i].name
                 /\ bills'[i].amount = bills[i].amount
                 /\ bills'[i].dueDate = bills[i].dueDate
                 /\ bills'[i].category = bills[i].category
                 /\ bills'[i].isPaid =
                       (IF bills[i].id = last'.id THEN ~bills[i].isPaid
                        ELSE bills[i].isPaid)
           /\ ((\A i \in DOMAIN bills : bills[i].id # last'.id)
                 => bills' = bills)
           /\ UNCHANGED << transactions, budgets, investments >>
           /\ ((last.op = "toggleBillPaid" /\ last.id = last'.id)
                 => bills' = last.pre) ]_vars

C7_Witness ==
    /\ last.op = "toggleBillPaid"
    /\ last.before.op = "toggleBillPaid"
    /\ last.before.id = last.id
    /\ Len(bills) = 3
    /\ bills[2].id = last.id
    /\ bills[1].isPaid
    /\ ~bills[2].isPaid

\* the total amount of the expense transactions of one category
SpentIn(category) ==
    SumOver({ j \in DOMAIN transactions :
                 /\ transactions[j].type = "expense"
                 /\ transactions[j].category = category },
            [j \in DOMAIN transactions |-> transactions[j].amount])

\* p is the JS number value of min(spent / limit * 100, 100), limit # 0
IsPercentageOf(p, spent, limit) ==
    IF \/ (limit > 0 /\ spent * 100 > 100 * limit)
       \/ (limit < 0 /\ spent * 100 < 100 * limit)
    THEN p = [kind |-> "finite", num |-> 100, den |-> 1]
    ELSE /\ p.kind = "finite"
         /\ p.den > 0
         /\ p.num * limit = spent * 100 * p.den

\* C8: for every budget, spent is the total of the expense transactions whose
\* category equals the budget's category and percentage is
\* min(spent / limit * 100, 100); with spent >= 0 and limit > 0 the percentage
\* lies in [0, 100].
C8_BudgetProgress ==
    LET progress == budgetProgress(budgets, transactions)
    IN  /\ DOMAIN progress = DOMAIN budgets
        /\ \A i \in DOMAIN budgets :
              /\ progress[i].spent = SpentIn(budgets[i].category)
              /\ (budgets[i].limit # 0
                    => IsPercentageOf(progress[i].percentage,
                                      SpentIn(budgets[i].category),
                                      budgets[i].limit))
              /\ ((SpentIn(budgets[i].category) >= 0 /\ budgets[i].limit > 0)
                    => /\ progress[i].percentage.kind = "finite"
                       /\ progress[i].percentage.num >= 0
                       /\ progress[i].percentage.num
                             <= 100 * progress[i].percentage.den)

C8_Witness ==
    \E i \in DOMAIN budgets :
       /\ budgets[i].limit > 0
       /\ budgetProgress(budgets, transactions)[i].spent > budgets[i].limit
       /\ budgetProgress(budgets, transactions)[i].percentage = JsNumber(100)
       /\ \E j \in DOMAIN transactions :
             /\ transactions[j].type = "income"
             /\ transactions[j].category = budgets[i].category

\* C9: a budget whose limit is 0 or negative has percentage 0, whatever was
\* spent.
C9_NoLimitYieldsZero ==
    \A i \in DOMAIN budgets :
       budgets[i].limit <= 0
          => budgetProgress(budgets, transactions)[i].percentage = JsNumber(0)

\* C10: totalInvested is the total of purchasePrice * quantity, currentValue
\* the total of currentPrice * quantity, profitLoss their difference, and
\* profitLossPercentage is profitLoss / totalInvested * 100 when totalInvested
\* is positive and 0 otherwise, also for no investment at all.
C10_InvestmentStats ==
    LET s  == investmentStats(investments)
        ti == SumOver(DOMAIN investments,
                      [i \in DOMAIN investments |->
                          investments[i].purchasePrice * investments[i].quantity])
        cv == SumOver(DOMAIN investments,
                      [i \in DOMAIN investments |->
                          investments[i].currentPrice * investments[i].quantity])
        p  == s.profitLossPercentage
    IN  /\ s.totalInvested = ti
        /\ s.currentValue = cv
        /\ s.profitLoss = cv - ti
        /\ p.kind = "finite"
        /\ p.den > 0
        /\ (ti > 0 => p.num * ti = (cv - ti) * 100 * p.den)
        /\ (ti <= 0 => p.num = 0)
        /\ (investments = << >> => ti = 0 /\ cv = 0 /\ p.num = 0)

C10_Witness ==
    /\ last.op = "handleAddInvestment"
    /\ Len(investments) >= 2
    /\ investmentStats(investments).totalInvested > 0
    /\ investmentStats(investments).profitLoss < 0
    /\ investmentStats(investments).profitLossPercentage.den > 1

\* C11: an investment whose purchasePrice is 0 has a defined, finite
\* performance; no NaN and no Infinity reaches the investment table.
C11_ZeroPurchasePriceIsFinite ==
    \A i \in DOMAIN investments :
       investments[i].purchasePrice = 0
          => performance(investments[i]).kind = "finite"

\* a and b are one letter, in either case
SameLetter(a, b) ==
    \/ a = b
    \/ << a, b >> \in { << "D", "d" >>, << "E", "e" >>, << "F", "f" >>,
                        << "N", "n" >>, << "O", "o" >>, << "R", "r" >>,
                        << "S", "s" >>, << "T", "t" >>, << "U", "u" >> }
    \/ << b, a >> \in { << "D", "d" >>, << "E", "e" >>, << "F", "f" >>,
                        << "N", "n" >>, << "O", "o" >>, << "R", "r" >>,
                        << "S", "s" >>, << "T", "t" >>, << "U", "u" >> }

\* text contains the query at some offset, letter case ignored
ContainsIgnoringCase(text, query) ==
    \E k \in 0 .. (Len(Chars(text)) - Len(Chars(query))) :
       \A i \in 1 .. Len(Chars(query)) :
          SameLetter(Chars(text)[k + i], Chars(query)[i])

\* the positions of the stored transactions the query selects
Selected ==
    { i \in DOMAIN transactions :
         \/ ContainsIgnoringCase(transactions[i].description, searchQuery)
         \/ ContainsIgnoringCase(transactions[i].category, searchQuery) }

\* C12: the filtered view holds exactly the transactions whose description or
\* category contains the query, letter case ignored, each once; it is empty
\* when no record matches and holds every transaction for the empty query.
C12_FilterSelectsMatches ==
    LET view == filteredTransactions(transactions, searchQuery)
    IN  /\ Range(view) = { transactions[i] : i \in Selected }
        /\ Len(view) = Cardinality(Selected)
        /\ (Selected = {} => view = << >>)
        /\ (searchQuery = "" => Len(view) = Len(transactions))

C12_Witness ==
    /\ searchQuery = "RENT"
    /\ Len(transactions) = 3
    /\ Len(filteredTransactions(transactions, searchQuery)) = 1
    /\ filteredTransactions(transactions, "din") # << >>
    /\ filteredTransactions(transactions, "din")
          # filteredTransactions(transactions, "")

\* C13: the filtered view is ordered by date descending, two transactions of
\* one date stand in the view in the order they have in the stored
\* collection, and the stored collection keeps its order: a search leaves it
\* as it was and an add puts the new record in front of it as it was.
C13_ViewSortedStateUntouched ==
    /\ [](LET view == filteredTransactions(transactions, searchQuery)
          IN  \A i, j \in DOMAIN view :
                 i < j =>
                    /\ view[i].date >= view[j].date
                    /\ (view[i].date = view[j].date
                          => PositionOf(view[i].id, transactions)
                                < PositionOf(view[j].id, transactions)))
    /\ [][ /\ (last'.op = "setSearchQuery" => transactions' = transactions)
           /\ (last'.op = "handleAddTransaction" /\ last'.ok
                 => Tail(transactions') = transactions) ]_vars

C13_Witness ==
    LET view == filteredTransactions(transactions, searchQuery)
    IN  /\ last.op = "setSearchQuery"
        /\ Len(view) = 3
        /\ view # transactions
        /\ \E i, j \in DOMAIN view : i < j /\ view[i].date = view[j].date

\* the ids of the records of a collection
IdsOf(collection) == { collection[i].id : i \in DOMAIN collection }

\* C14: within each of the four collections no two records have the same id,
\* and an id that delete-transaction removed is on no record of any
\* collection afterwards.
C14_IdsUnique ==
    /\ \A collection \in { transactions, bills, budgets, investments } :
          /\ Cardinality(IdsOf(collection)) = Len(collection)
          /\ IdsOf(collection) \cap deletedIds = {}

C14_Witness ==
    /\ deletedIds # {}
    /\ last.op = "handleAddTransaction"
    /\ last.ok
    /\ Len(transactions) >= 2
    /\ bills # << >>

\* the collection kept under a storage key
CollectionUnder(key) ==
    CASE key = "fintrack_transactions" -> transactions
      [] key = "fintrack_bills"        -> bills
      [] key = "fintrack_budgets"      -> budgets
      [] key = "fintrack_investments"  -> investments

\* C15: at startup the load does not throw; a key that is missing or holds
\* text that is not JSON gives the empty list, and every other key gives the
\* collection stored under it.
C15_LoadFailsOpen ==
    last.op = "mount"
       => /\ mounted
          /\ \A k \in StorageKeys :
                /\ (last.pre[k].kind \in { "absent", "corrupt" }
                      => CollectionUnder(k) = << >>)
                /\ (last.pre[k].kind = "json"
                      => CollectionUnder(k) = last.pre[k].value)

\* C16: once App has rendered, the value stored under each key is the
\* serialisation of the collection in memory after every operation, and a
\* reload leaves the four collections exactly as they were.
C16_StoredInFullAndRestored ==
    /\ [](mounted
            => \A k \in StorageKeys :
                  storage[k] = Stringify(CollectionUnder(k)))
    /\ [][ last'.op = "reload"
             => /\ transactions' = transactions
                /\ bills' = bills
                /\ budgets' = budgets
                /\ investments' = investments ]_vars

C16_Witness ==
    /\ last.op = "reload"
    /\ last.before.op = "toggleBillPaid"
    /\ uuidCount >= 2
    /\ deletedIds # {}
    /\ \A k \in StorageKeys : CollectionUnder(k) # << >>
    /\ \E i \in DOMAIN bills : bills[i].isPaid

\* the number of positions of seq that hold x
CountIn(seq, x) == Cardinality({ i \in DOMAIN seq : seq[i] = x })

\* the n records added last, all of them when there are fewer: additions go
\* to the front of the collection
MostRecentlyAdded(txs, n) == SubSeq(txs, 1, IF Len(txs) > n THEN n ELSE Len(txs))

\* C17: the summary sent with an insight request consists of the 20
\* transactions added last (all of them when fewer than 20 exist), each
\* reduced to exactly the fields type, amount, category and date.
C17_SummaryOfMostRecent ==
    (last.op = "fetchInsights" /\ last.pre # << >>)
       => LET sent == requests[Len(requests)].summary
              recent == MostRecentlyAdded(last.pre, SummarySize)
          IN  /\ Len(sent) = Len(recent)
              /\ \A i \in DOMAIN sent :
                    DOMAIN sent[i] = { "type", "amount", "category", "date" }
              /\ \A i \in DOMAIN recent :
                    CountIn(sent, Summarised(recent[i]))
                       = CountIn([j \in DOMAIN recent |-> Summarised(recent[j])],
                                 Summarised(recent[i]))

\* the request that has just been settled and its outcome
Settled == last.arg

\* no request is sent for an empty transaction list, and one is sent otherwise
SentOnlyForTransactions ==
    last.op = "fetchInsights"
       => (requests[Len(requests)].external <=> last.pre # << >>)

\* C18 as stated: getFinancialInsights never rejects; it gives the
\* 'Start adding' string without a call of the service for an empty list, the
\* 'Error connecting' string when the call fails, and otherwise the service's
\* text; fetchInsights ends with isAiLoading false and aiInsights non-empty.
C18_AsStated ==
    /\ SentOnlyForTransactions
    /\ last.op = "insightsReturned"
          => /\ last.ok
             /\ ~isAiLoading
             /\ aiInsights # ""
             /\ aiInsights =
                   CASE ~Settled.request.external        -> StartAddingText
                     [] Settled.outcome.kind = "failure" -> ErrorText
                     [] OTHER                            -> Settled.outcome.text

\* C18: getFinancialInsights never rejects; it gives the 'Start adding' string
\* without a call of the service for an empty list, the 'Error connecting'
\* string when the call fails, the 'Unable to generate' string when the
\* service answers with no text, and otherwise the service's text;
\* fetchInsights ends with isAiLoading false and aiInsights non-empty.
C18_InsightsAlwaysSettle ==
    /\ SentOnlyForTransactions
    /\ last.op = "insightsReturned"
          => /\ last.ok
             /\ ~isAiLoading
             /\ aiInsights # ""
             /\ aiInsights =
                   CASE ~Settled.request.external        -> StartAddingText
                     [] Settled.outcome.kind = "failure" -> ErrorText
                     [] Settled.outcome.text = ""        -> UnableText
                     [] OTHER                            -> Settled.outcome.text

C18_Witness ==
    /\ last.op = "insightsReturned"
    /\ Settled.request.external
    /\ Settled.outcome = [kind |-> "text", text |-> ""]
    /\ aiInsights = UnableText
    /\ ~isAiLoading
    /\ activeTab = "insights"

\* the stored values are the serialisations of the collections
StoredInFull ==
    \A k \in StorageKeys : storage[k] = Stringify(CollectionUnder(k))

\* a step of a mutation handler has the handler's effect
EffectAsUsual ==
    /\ last'.op = "handleAddTransaction"
          => /\ Tail(transactions') = transactions
             /\ Head(transactions').id \notin IdsOf(transactions)
    /\ last'.op = "deleteTransaction"
          => transactions' = RemoveTransaction(last'.id, transactions)
    /\ last'.op = "handleAddBill"
          => /\ SubSeq(bills', 1, Len(bills)) = bills
             /\ Len(bills') = Len(bills) + 1
    /\ last'.op = "toggleBillPaid"
          => bills' = TogglePaid(last'.id, bills)
    /\ last'.op = "handleAddBudget"
          => /\ SubSeq(budgets', 1, Len(budgets)) = budgets
             /\ Len(budgets') = Len(budgets) + 1
    /\ last'.op = "handleAddInvestment"
          => /\ SubSeq(investments', 1, Len(investments)) = investments
             /\ Len(investments') = Len(investments) + 1
    /\ StoredInFull'

\* C19: while an insight request is outstanding the six mutation handlers
\* are enabled and have their usual effect, and the start and the completion
\* of a request, whatever its outcome, change none of the four collections
\* and none of the stored values.
C19_InsightsDoNotInterfere ==
    /\ [](requests # << >>
            => /\ uuidCount < MaxIds
                  => /\ ENABLED (\E form \in StoreTxForms :
                                    SubmitTransaction(form))
                     /\ ENABLED (\E form \in StoreBillForms : SubmitBill(form))
                     /\ ENABLED (\E form \in StoreBudgetForms :
                                    SubmitBudget(form))
                     /\ ENABLED (\E form \in StoreInvestmentForms :
                                    SubmitInvestment(form))
               /\ \A i \in DOMAIN transactions :
                     ENABLED DeleteTransaction(transactions[i].id)
               /\ \A i \in DOMAIN bills : ENABLED ToggleBillPaid(bills[i].id))
    /\ [][ /\ requests # << >> /\ requests' # << >> => EffectAsUsual
           /\ last'.op \in { "fetchInsights", "insightsReturned" }
                 => UNCHANGED << transactions, bills, budgets, investments,
                                 storage >> ]_vars

C19_Witness ==
    /\ last.op = "insightsReturned"
    /\ last.before.op = "toggleBillPaid"
    /\ Settled.outcome.kind = "failure"
    /\ Settled.request.external
    /\ Len(Settled.request.summary) < Len(transactions)
    /\ \E i \in DOMAIN bills : bills[i].isPaid

\* the positions of the expenses stored with a category
ExpensesOf(category) ==
    { j \in DOMAIN transactions :
         /\ transactions[j].type = "expense"
         /\ transactions[j].category = category }

\* C20: the category breakdown has exactly one entry for each category that
\* occurs on an expense and none for any other category; the value of an
\* entry is the sum of the amounts of the expenses of its category, so that
\* incomes add nothing; with no expense the breakdown is empty.
C20_CategoryBreakdown ==
    LET breakdown == categoryData(transactions)
        spentOn == { transactions[j].category :
                        j \in { k \in DOMAIN transactions :
                                   transactions[k].type = "expense" } }
    IN  /\ { breakdown[i].name : i \in DOMAIN breakdown } = spentOn
        /\ Len(breakdown) = Cardinality(spentOn)
        /\ \A i \in DOMAIN breakdown :
              breakdown[i].value
                 = SumOver(ExpensesOf(breakdown[i].name),
                           [j \in DOMAIN transactions |-> transactions[j].amount])
        /\ (spentOn = {} => breakdown = << >>)

C20_Witness ==
    /\ \E j \in DOMAIN transactions : transactions[j].type = "income"
    /\ \E i \in DOMAIN categoryData(transactions) :
          /\ Cardinality(ExpensesOf(categoryData(transactions)[i].name)) = 2
          /\ categoryData(transactions)[i].value = 4

\* the four collections and the search query
Inputs == << transactions, bills, budgets, investments, searchQuery >>

\* the derivations other than the time series, on the current state
Derived ==
    [stats |-> stats(transactions),
     categoryData |-> categoryData(transactions),
     budgetProgress |-> budgetProgress(budgets, transactions),
     investmentStats |-> investmentStats(investments),
     filteredTransactions |-> filteredTransactions(transactions, searchQuery)]

C22_AmountsNonNegative ==
    \A i \in DOMAIN transactions :
       /\ transactions[i].amount >= 0
       /\ transactions[i].description # ""

\* the positions of the transactions of a type dated on a day
DatedOn(day, type) ==
    { j \in DOMAIN transactions :
         transactions[j].date = day /\ transactions[j].type = type }

\* C23: the time series has 7 entries, one for each of the 7 days ending
\* today, the oldest first; the income and the expense of an entry are the
\* sums of the amounts of the income and expense transactions dated on that
\* very day, a day of another year with the same month and day not counted.
C23_SeriesOfLastSevenDays ==
    LET series  == chartData(transactions, today)
        amounts == [j \in DOMAIN transactions |-> transactions[j].amount]
    IN  /\ Len(series) = ChartDays
        /\ \A i \in DOMAIN series :
              LET day == today - (ChartDays - i)
              IN  /\ series[i].name = FormatMonthDay(day)
                  /\ series[i].income = SumOver(DatedOn(day, "income"), amounts)
                  /\ series[i].expense = SumOver(DatedOn(day, "expense"), amounts)

\* two bills that differ in isPaid at most
SameExceptPaid(a, b) == [a EXCEPT !.isPaid = b.isPaid] = b

\* C24: in every step a transaction present before and after has the same
\* field values; the bills, the budgets and the investments present before are
\* all present after, at their positions, with the same field values, except
\* that isPaid of a bill may differ after toggle-bill-paid.
C24_RecordsImmutable ==
    [][ /\ \A i \in DOMAIN transactions, j \in DOMAIN transactions' :
              transactions'[j].id = transactions[i].id
                 => transactions'[j] = transactions[i]
        /\ Len(bills') >= Len(bills)
        /\ \A i \in DOMAIN bills :
              /\ SameExceptPaid(bills'[i], bills[i])
              /\ (bills'[i].isPaid # bills[i].isPaid
                    => last'.op = "toggleBillPaid")
        /\ Len(budgets') >= Len(budgets)
        /\ SubSeq(budgets', 1, Len(budgets)) = budgets
        /\ Len(investments') >= Len(investments)
        /\ SubSeq(investments', 1, Len(investments)) = investments ]_vars

C24_Witness ==
    /\ last.op = "toggleBillPaid"
    /\ last.before.op = "deleteTransaction"
    /\ Len(bills) >= 2
    /\ \E i \in DOMAIN bills : bills[i].isPaid
    /\ \E i \in DOMAIN bills : ~bills[i].isPaid
    /\ deletedIds # {}
    /\ transactions # << >>
    /\ budgets # << >>
    /\ investments # << >>

\* the storage key of the collection a mutation handler changes
KeyOf(op) ==
    CASE op \in { "handleAddTransaction", "deleteTransaction" }
            -> "fintrack_transactions"
      [] op \in { "handleAddBill", "toggleBillPaid" } -> "fintrack_bills"
      [] op = "handleAddBudget"     -> "fintrack_budgets"
      [] op = "handleAddInvestment" -> "fintrack_investments"

\* C25: a step of a handler that mutates one collection leaves the other
\* three collections and the values stored under the other three keys as
\* they were.
C25_OtherCollectionsUntouched ==
    [][ last'.op \in { "handleAddTransaction", "deleteTransaction",
                       "handleAddBill", "toggleBillPaid", "handleAddBudget",
                       "handleAddInvestment" }
          => \A k \in StorageKeys \ { KeyOf(last'.op) } :
                /\ CollectionUnder(k)' = CollectionUnder(k)
                /\ storage'[k] = storage[k] ]_vars

C25_Witness ==
    /\ last.op = "handleAddBudget"
    /\ last.before.op = "handleAddInvestment"
    /\ Len(budgets) = 2
    /\ Len(investments) = 2
    /\ transactions # << >>
    /\ bills # << >>
    /\ \A k \in StorageKeys : storage[k] = Stringify(CollectionUnder(k))

\* C26: isAiLoading is true exactly while an insight request is outstanding;
\* a request is started only while isAiLoading is false, so at most one is
\* outstanding, and the request that settles is the one started last, with
\* none older left to overwrite its result.
C26_OneRequestAtATime ==
    /\ [](/\ isAiLoading <=> requests # << >>
          /\ Len(requests) <= 1)
    /\ [][ /\ last'.op = "fetchInsights"
              => ~isAiLoading /\ requests = << >> /\ isAiLoading'
           /\ last'.op = "insightsReturned"
              => /\ Len(requests) = 1
                 /\ requests' = << >>
                 /\ ~isAiLoading' ]_vars

C26_Witness ==
    /\ last.op = "fetchInsights"
    /\ last.before.op = "insightsReturned"
    /\ isAiLoading
    /\ aiInsights = ErrorText
    /\ Len(requests) = 1
    /\ requests[1].external

====
